---- MODULE Spec2Model ----
(***************************************************************************)
(* Model of the navigation endpoint of surakshanet-backend                 *)
(* (src/app/api/v1/navigation.py): get_route, its input normalisation and  *)
(* engine selection, and osmnx_route, the risk-aware planner on an         *)
(* OpenStreetMap walking graph.                                            *)
(*                                                                         *)
(* Conventions.                                                            *)
(*  - An optional value (Python None or a value) is a sequence of length   *)
(*    at most one: <<>> is None, <<v>> is v.                               *)
(*  - Coordinates are integers in units of 0.00005 degree.  Every node of  *)
(*    the map lies on longitude 0; node n lies on latitude 2^(n-1), so no  *)
(*    query point is equally near to two nodes.                            *)
(*  - A graph is [nodes, length]: length maps an edge, the set {a, b} of   *)
(*    its two ends, to its "length" attribute in meters.  A walk network   *)
(*    of OSMnx holds every way in both directions, so an edge is           *)
(*    undirected; of parallel edges networkx uses the shortest, which is   *)
(*    the one the model keeps.                                             *)
(***************************************************************************)
EXTENDS Integers, Sequences, FiniteSets, TLC

VARIABLES
    request,        \* NavigationRequest: the six location fields and risk_zones
    mode,           \* NavigationMode.mode
    osm_data,       \* what the OpenStreetMap provider answers for the request's box
    pc,             \* position of the handler
    G,              \* osmnx_route: the fetched graph
    orig_node,      \* osmnx_route: nearest node of the origin (0: not yet set)
    dest_node,      \* osmnx_route: nearest node of the destination (0: not yet set)
    risk_nodes,     \* osmnx_route: the excluded-node set
    G_safe,         \* osmnx_route: the copy of G without risk_nodes
    route,          \* osmnx_route: the node path
    route_type,     \* osmnx_route: "safe" or "risky" ("none": not yet set)
    result,         \* osmnx_route: route_coords, route_length, instructions
    response,       \* the JSONResponse the handler returned ("none": not yet)
    calls,          \* how often each collaborator or search was invoked
    parked          \* the variables above of a second request in service, which
                    \* is not running now (NoFrame: there is none)

vars == <<request, mode, osm_data, pc, G, orig_node, dest_node,
          risk_nodes, G_safe, route, route_type, result, response, calls, parked>>

-----------------------------------------------------------------------------
(* Bounds of the model *)

\* at most this many edges in a provider's map
MaxEdges == 3
\* at most this many risk zones in a request
MaxZones == 2
MaxRadius == 2

\* cutoff=30 of the expansion around a risk zone's nearest node
AvoidRadius == 30

None == <<>>
Some(v) == <<v>>

Nodes == 1..4
Lengths == {10, 40}

NodeLat(n) == 2 ^ (n - 1)
NodeLon(n) == 0

-----------------------------------------------------------------------------
(* Graphs *)

EmptyGraph == [nodes |-> {}, length |-> <<>>]

Edges(g) == DOMAIN g.length

EdgesOn(S) == {e \in SUBSET S : Cardinality(e) = 2}

\* every graph on a subset of U with at most k edges
Maps(U, k) ==
    UNION { UNION { {[nodes |-> S, length |-> f] : f \in [E -> Lengths]}
                    : E \in {X \in SUBSET EdgesOn(S) : Cardinality(X) <= k} }
            : S \in SUBSET U }

\* a filter that removes from a copy it then drops: the graph keeps every node
remove_nothing(g, S) == g

\* G.copy(); G_safe.remove_nodes_from(S): the nodes of S go, with their edges
remove_nodes_from(g, S) ==
    [nodes |-> g.nodes \ S,
     length |-> [e \in {x \in Edges(g) : x \cap S = {}} |-> g.length[e]]]

\* ox.nearest_nodes(G, X, Y) on a graph with at least one node
nearest_nodes(g, X, Y) ==
    LET d2(n) == (NodeLon(n) - X) * (NodeLon(n) - X)
                 + (NodeLat(n) - Y) * (NodeLat(n) - Y)
    IN  CHOOSE n \in g.nodes : \A m \in g.nodes : d2(n) < d2(m) \/ (d2(n) = d2(m) /\ n <= m)

-----------------------------------------------------------------------------
(* Dijkstra's algorithm, as networkx runs it *)

\* networkx's weight of an edge: the edge's attribute of that name, and 1 when
\* the edge has no such attribute.  An edge of an OSMnx graph has a "length"
\* and no "weight".
Weight(g, weight, e) == IF weight = "length" THEN g.length[e] ELSE 1

RECURSIVE DijkstraHops(_, _, _, _, _, _)
\* a search that ignores the weight it is given: every edge counts 1
DijkstraHops(g, weight, cutoff, dist, pred, done) ==
    LET frontier == DOMAIN dist \ done
    IN  IF frontier = {}
        THEN [dist |-> dist, pred |-> pred]
        ELSE LET u == CHOOSE x \in frontier : \A y \in frontier :
                          dist[x] < dist[y] \/ (dist[x] = dist[y] /\ x <= y)
                 via(v) == dist[u] + 1
                 better == {v \in g.nodes \ done :
                               /\ v # u
                               /\ {u, v} \in Edges(g)
                               /\ (cutoff = None \/ via(v) <= cutoff[1])
                               /\ (v \notin DOMAIN dist \/ via(v) < dist[v])}
                 dist2 == [v \in DOMAIN dist \cup better |->
                              IF v \in better THEN via(v) ELSE dist[v]]
                 pred2 == [v \in DOMAIN pred \cup better |->
                              IF v \in better THEN u ELSE pred[v]]
             IN  DijkstraHops(g, weight, cutoff, dist2, pred2, done \cup {u})

RECURSIVE DijkstraLoop(_, _, _, _, _, _)
\* weight: the name of the edge attribute that is summed; dist, pred: functions
\* on the nodes reached so far; done: the settled nodes; cutoff: None, or
\* Some(c) to leave out every node farther than c
DijkstraLoop(g, weight, cutoff, dist, pred, done) ==
    LET frontier == DOMAIN dist \ done
    IN  IF frontier = {}
        THEN [dist |-> dist, pred |-> pred]
        ELSE LET u == CHOOSE x \in frontier : \A y \in frontier :
                          dist[x] < dist[y] \/ (dist[x] = dist[y] /\ x <= y)
                 via(v) == dist[u] + Weight(g, weight, {u, v})
                 better == {v \in g.nodes \ done :
                               /\ v # u
                               /\ {u, v} \in Edges(g)
                               /\ (cutoff = None \/ via(v) <= cutoff[1])
                               /\ (v \notin DOMAIN dist \/ via(v) < dist[v])}
                 dist2 == [v \in DOMAIN dist \cup better |->
                              IF v \in better THEN via(v) ELSE dist[v]]
                 pred2 == [v \in DOMAIN pred \cup better |->
                              IF v \in better THEN u ELSE pred[v]]
             IN  DijkstraLoop(g, weight, cutoff, dist2, pred2, done \cup {u})

Dijkstra(g, source, cutoff, weight) ==
    DijkstraLoop(g, weight, cutoff, (source :> 0), (source :> source), {})

RECURSIVE PathAfterSource(_, _, _)
\* a path rebuilt without its first node
PathAfterSource(pred, source, target) ==
    IF pred[target] = source THEN <<target>>
    ELSE Append(PathAfterSource(pred, source, pred[target]), target)

RECURSIVE PathTo(_, _, _)
PathTo(pred, source, target) ==
    IF target = source THEN <<source>>
    ELSE Append(PathTo(pred, source, pred[target]), target)

\* nx.shortest_path(G, source, target, weight="length"): the path, or the
\* exception it raises (NodeNotFound, NetworkXNoPath)
shortest_path(g, source, target) ==
    IF source \notin g.nodes \/ target \notin g.nodes
    THEN [ok |-> FALSE, exc |-> "NodeNotFound", path |-> <<>>]
    ELSE LET r == Dijkstra(g, source, None, "length")
         IN  IF target \notin DOMAIN r.dist
             THEN [ok |-> FALSE, exc |-> "NetworkXNoPath", path |-> <<>>]
             ELSE [ok |-> TRUE, exc |-> "", path |-> PathTo(r.pred, source, target)]

\* nx.single_source_dijkstra_path_length(G, node, cutoff=c).items(): the
\* nodes.  The call names no weight, so networkx sums the attribute "weight".
\* an expansion that keeps the nodes at the cutoff and drops the nearer ones
dijkstra_path_length_at_cutoff(g, node, c) ==
    LET dist == Dijkstra(g, node, Some(c), "weight").dist
    IN  {n \in DOMAIN dist : dist[n] = c}

single_source_dijkstra_path_length(g, node, c) ==
    DOMAIN Dijkstra(g, node, Some(c), "weight").dist

-----------------------------------------------------------------------------
(* Collaborators of the handler *)

\* geocode_address(address): Some(<<lat, lon>>) for a place Nominatim finds,
\* None (the code's (None, None)) for one it does not
geocode_address(address) ==
    IF address = "Ram Ghat" THEN Some(<<4, 0>>) ELSE None

\* ox.utils_geo.great_circle_vec between two points of one meridian, in units
\* of 0.0001 m: 0.00005 degree of latitude is 5.5597 m
great_circle_vec(lat1, lon1, lat2, lon2) ==
    (IF lat1 >= lat2 THEN lat1 - lat2 ELSE lat2 - lat1) * 55597

RECURSIVE SumSeq(_)
SumSeq(s) == IF s = <<>> THEN 0 ELSE Head(s) + SumSeq(Tail(s))

\* f"{x:.5f}": a coordinate as the text shows it, in units of 0.00001 degree
Format5(x) == x * 5

\* a synthesis that writes the arrival marker one place too early
SynthesisEarlyArrival(g, path) ==
    LET route_coords == [i \in 1..Len(path) |->
                            [lat |-> NodeLat(path[i]), lon |-> NodeLon(path[i])]]
        proceed == [i \in 1..Len(path) |->
                       [text |-> "Proceed to",
                        at |-> Some(<<Format5(route_coords[i].lat), Format5(route_coords[i].lon)>>)]]
        started == [proceed EXCEPT ![1] = [text |-> "Start here", at |-> None]]
        last == IF Len(path) >= 2 THEN Len(path) - 1 ELSE Len(path)
        instructions == [started EXCEPT ![last] =
                            [text |-> "You have arrived at your destination", at |-> None]]
        legs == [i \in 1..(Len(path) - 1) |->
                    great_circle_vec(route_coords[i].lat, route_coords[i].lon,
                                     route_coords[i + 1].lat, route_coords[i + 1].lon)]
    IN  [route_coords |-> route_coords,
         route_length |-> SumSeq(legs) \div 10000,
         instructions |-> instructions]

\* a synthesis that reports the summed "length" of the path's edges
SynthesisEdgeLength(g, path) ==
    LET route_coords == [i \in 1..Len(path) |->
                            [lat |-> NodeLat(path[i]), lon |-> NodeLon(path[i])]]
        proceed == [i \in 1..Len(path) |->
                       [text |-> "Proceed to",
                        at |-> Some(<<Format5(route_coords[i].lat), Format5(route_coords[i].lon)>>)]]
        started == [proceed EXCEPT ![1] = [text |-> "Start here", at |-> None]]
        instructions == [started EXCEPT ![Len(path)] =
                            [text |-> "You have arrived at your destination", at |-> None]]
        legs == [i \in 1..(Len(path) - 1) |-> g.length[{path[i], path[i + 1]}]]
    IN  [route_coords |-> route_coords,
         route_length |-> SumSeq(legs),
         instructions |-> instructions]

\* lines 139-154 of osmnx_route: the polyline, the instructions and the distance
Synthesis(g, path) ==
    LET route_coords == [i \in 1..Len(path) |->
                            [lat |-> NodeLat(path[i]), lon |-> NodeLon(path[i])]]
        proceed == [i \in 1..Len(path) |->
                       [text |-> "Proceed to",
                        at |-> Some(<<Format5(route_coords[i].lat), Format5(route_coords[i].lon)>>)]]
        started == [proceed EXCEPT ![1] = [text |-> "Start here", at |-> None]]
        instructions == [started EXCEPT ![Len(path)] =
                            [text |-> "You have arrived at your destination", at |-> None]]
        legs == [i \in 1..(Len(path) - 1) |->
                    great_circle_vec(route_coords[i].lat, route_coords[i].lon,
                                     route_coords[i + 1].lat, route_coords[i + 1].lon)]
    IN  [route_coords |-> route_coords,
         route_length |-> SumSeq(legs) \div 10000,
         instructions |-> instructions]

NoResult == [route_coords |-> <<>>, route_length |-> 0, instructions |-> <<>>]

\* the risk filter with cutoff r: the nearest node of every zone and every
\* node within the cutoff of it along the network
RECURSIVE RiskNodesShortCircuit(_, _, _)
\* a filter that skips a zone whose nearest node an earlier zone excluded
RiskNodesShortCircuit(g, zones, r) ==
    IF zones = <<>> THEN {}
    ELSE LET earlier == RiskNodesShortCircuit(g, SubSeq(zones, 1, Len(zones) - 1), r)
             node == nearest_nodes(g, zones[Len(zones)].lon, zones[Len(zones)].lat)
         IN  IF node \in earlier THEN earlier
             ELSE earlier \cup {node} \cup single_source_dijkstra_path_length(g, node, r)

RiskNodesWithin(g, zones, r) ==
    UNION { LET node == nearest_nodes(g, zones[i].lon, zones[i].lat)
            IN  {node} \cup single_source_dijkstra_path_length(g, node, r)
            : i \in 1..Len(zones) }

\* the risk filter, lines 119-127
RiskNodes(g, zones) == RiskNodesWithin(g, zones, AvoidRadius)

-----------------------------------------------------------------------------
(* Responses *)

NoResponse == [status |-> "none"]

\* no second request is in service
NoFrame == [pc |-> "absent"]

ErrorResponse(msg, code) == [status |-> "error", message |-> msg, status_code |-> code]

\* the handler's except clause, lines 220-224
NavigationFailed == ErrorResponse("Navigation failed", 500)

Called(name) == [calls EXCEPT ![name] = @ + 1]

\* an exception that no except clause catches: the request ends without a response
RaiseUnhandled(counted) ==
    /\ pc' = "done"
    /\ response' = NoResponse
    /\ calls' = counted

\* an exception leaves the try block: the handler answers 500
Raise(counted) ==
    /\ pc' = "done"
    /\ response' = NavigationFailed
    /\ calls' = counted

-----------------------------------------------------------------------------
(* get_route, lines 157-224 *)

osmnx_locals == <<G, orig_node, dest_node, risk_nodes, G_safe, route, route_type, result>>

\* lines 167-171: the origin is geocoded when a coordinate is missing and a
\* place name is given
NormalizeFrom ==
    /\ pc = "normalize_from"
    /\ UNCHANGED <<parked, mode, osm_data, osmnx_locals>>
    /\ IF (request.from_lat = None \/ request.from_lon = None) /\ request.from_place # None
       THEN \/ /\ geocode_address(request.from_place[1]) = None
               /\ pc' = "done"
               /\ response' = ErrorResponse("Could not geocode source", 400)
               /\ calls' = Called("geocode_address")
               /\ UNCHANGED request
            \/ /\ geocode_address(request.from_place[1]) # None
               /\ request' = [request EXCEPT
                      !.from_lat = Some(geocode_address(request.from_place[1])[1][1]),
                      !.from_lon = Some(geocode_address(request.from_place[1])[1][2])]
               /\ pc' = "normalize_to"
               /\ calls' = Called("geocode_address")
               /\ UNCHANGED response
            \/ \* the geocoder raises (Nominatim unreachable)
               /\ Raise(Called("geocode_address"))
               /\ UNCHANGED request
       ELSE /\ pc' = "normalize_to"
            /\ UNCHANGED <<request, response, calls>>

\* lines 172-176: the same for the destination
NormalizeTo ==
    /\ pc = "normalize_to"
    /\ UNCHANGED <<parked, mode, osm_data, osmnx_locals>>
    /\ IF (request.to_lat = None \/ request.to_lon = None) /\ request.to_place # None
       THEN \/ /\ geocode_address(request.to_place[1]) = None
               /\ pc' = "done"
               /\ response' = ErrorResponse("Could not geocode destination", 400)
               /\ calls' = Called("geocode_address")
               /\ UNCHANGED request
            \/ /\ geocode_address(request.to_place[1]) # None
               /\ request' = [request EXCEPT
                      !.to_lat = Some(geocode_address(request.to_place[1])[1][1]),
                      !.to_lon = Some(geocode_address(request.to_place[1])[1][2])]
               /\ pc' = "check_coordinates"
               /\ calls' = Called("geocode_address")
               /\ UNCHANGED response
            \/ /\ Raise(Called("geocode_address"))
               /\ UNCHANGED request
       ELSE /\ pc' = "check_coordinates"
            /\ UNCHANGED <<request, response, calls>>

\* a handler without the check of lines 179-180
CheckCoordinatesSkipped ==
    /\ pc = "check_coordinates"
    /\ UNCHANGED <<parked, request, mode, osm_data, osmnx_locals, calls, response>>
    /\ pc' = "select_engine"

\* lines 179-180: all four coordinates must be present after normalisation
CheckCoordinates ==
    /\ pc = "check_coordinates"
    /\ UNCHANGED <<parked, request, mode, osm_data, osmnx_locals, calls>>
    /\ IF \/ request.from_lat = None \/ request.from_lon = None
          \/ request.to_lat = None \/ request.to_lon = None
       THEN /\ pc' = "done"
            /\ response' = ErrorResponse("Source and destination must be provided", 400)
       ELSE /\ pc' = "select_engine"
            /\ UNCHANGED response

\* a selection that sends only a request with risk zones to the graph engine
UseOsmnxForZones(zones, m) == Len(zones) > 0

\* the condition of line 184
UseOsmnx(zones, m) == Len(zones) > 0 \/ m = "osm"

\* a selection that sends only mode "google" to the Directions API
UseGoogleOnRequest(m) == m = "google"

\* the condition of line 203
UseGoogle(m) == m = "google" \/ m = "auto"

\* lines 184, 203, 217-218: the engine is chosen
SelectEngine ==
    /\ pc = "select_engine"
    /\ UNCHANGED <<parked, request, mode, osm_data, osmnx_locals>>
    /\ IF UseOsmnx(request.risk_zones, mode)
       THEN /\ pc' = "graph_from_bbox"
            /\ calls' = Called("osmnx_route")
            /\ UNCHANGED response
       ELSE IF UseGoogle(mode)
       THEN /\ pc' = "google_maps_route"
            /\ calls' = Called("google_maps_route")
            /\ UNCHANGED response
       ELSE /\ pc' = "done"
            /\ response' = ErrorResponse("Invalid routing mode.", 400)
            /\ UNCHANGED calls

\* google_maps_route, lines 72-100, and the response of lines 208-216
GoogleRoute ==
    /\ pc = "google_maps_route"
    /\ UNCHANGED <<parked, request, mode, osm_data, osmnx_locals>>
    /\ \/ \* the HTTP status is not 200, or the API's status is not OK
          Raise(calls)
       \/ /\ pc' = "done"
          /\ response' = [status |-> "success", engine |-> "google",
                          distance_meters |-> 1200,
                          route |-> <<[lat |-> 4, lon |-> 0]>>,
                          instructions |-> <<[text |-> "Head north", at |-> None]>>,
                          risk_zones |-> request.risk_zones,
                          message |-> "Google Maps route calculated.",
                          status_code |-> 200]
          /\ UNCHANGED calls

-----------------------------------------------------------------------------
(* osmnx_route, lines 103-155 *)

\* a fetch that keeps its graph where the next call finds it: the graph a
\* second request in service has fetched is used instead of this request's
FetchGraphShared ==
    /\ pc = "graph_from_bbox"
    /\ UNCHANGED <<parked, request, mode, osm_data, orig_node, dest_node, risk_nodes,
                   G_safe, route, route_type, result>>
    /\ IF osm_data.ok
       THEN /\ G' = IF parked.pc # "absent" /\ parked.G.nodes # {}
                     THEN parked.G ELSE osm_data.graph
            /\ pc' = "nearest_nodes"
            /\ calls' = Called("graph_from_bbox")
            /\ UNCHANGED response
       ELSE /\ Raise(Called("graph_from_bbox"))
            /\ UNCHANGED G

\* lines 108-112: the graph of the bounding box is fetched
FetchGraph ==
    /\ pc = "graph_from_bbox"
    /\ UNCHANGED <<parked, request, mode, osm_data, orig_node, dest_node, risk_nodes,
                   G_safe, route, route_type, result>>
    /\ IF osm_data.ok
       THEN /\ G' = osm_data.graph
            /\ pc' = "nearest_nodes"
            /\ calls' = Called("graph_from_bbox")
            /\ UNCHANGED response
       ELSE /\ Raise(Called("graph_from_bbox"))
            /\ UNCHANGED G

\* lines 115-116: the nearest nodes of origin and destination
NearestNodes ==
    /\ pc = "nearest_nodes"
    /\ UNCHANGED <<parked, request, mode, osm_data, G, risk_nodes, G_safe, route,
                   route_type, result>>
    /\ IF G.nodes = {}
       THEN \* nearest_nodes raises on a graph without nodes
            /\ Raise(calls)
            /\ UNCHANGED <<orig_node, dest_node>>
       ELSE /\ orig_node' = nearest_nodes(G, request.from_lon[1], request.from_lat[1])
            /\ dest_node' = nearest_nodes(G, request.to_lon[1], request.to_lat[1])
            /\ pc' = "risk_filter"
            /\ UNCHANGED <<response, calls>>

\* a filter that removes the nodes from G itself
RiskFilterInPlace ==
    /\ pc = "risk_filter"
    /\ UNCHANGED <<parked, request, mode, osm_data, orig_node, dest_node, route,
                   route_type, result, response, calls>>
    /\ risk_nodes' = RiskNodes(G, request.risk_zones)
    /\ G' = remove_nodes_from(G, RiskNodes(G, request.risk_zones))
    /\ G_safe' = remove_nodes_from(G, RiskNodes(G, request.risk_zones))
    /\ pc' = "search_safe"

\* lines 119-129: the excluded nodes, and the copy of the graph without them
RiskFilter ==
    /\ pc = "risk_filter"
    /\ UNCHANGED <<parked, request, mode, osm_data, G, orig_node, dest_node, route,
                   route_type, result, response, calls>>
    /\ risk_nodes' = RiskNodes(G, request.risk_zones)
    /\ G_safe' = remove_nodes_from(G, RiskNodes(G, request.risk_zones))
    /\ pc' = "search_safe"

\* a planner without the fallback: a failed search on the filtered graph ends
\* the request
SearchSafeOnly ==
    /\ pc = "search_safe"
    /\ UNCHANGED <<parked, request, mode, osm_data, G, orig_node, dest_node, risk_nodes,
                   G_safe, result>>
    /\ IF shortest_path(G_safe, orig_node, dest_node).ok
       THEN /\ route' = shortest_path(G_safe, orig_node, dest_node).path
            /\ route_type' = "safe"
            /\ pc' = "synthesize"
            /\ calls' = Called("search_safe")
            /\ UNCHANGED response
       ELSE /\ Raise(Called("search_safe"))
            /\ UNCHANGED <<route, route_type>>

\* lines 132-135: the search on the filtered graph
SearchSafe ==
    /\ pc = "search_safe"
    /\ UNCHANGED <<parked, request, mode, osm_data, G, orig_node, dest_node, risk_nodes,
                   G_safe, result, response>>
    /\ calls' = Called("search_safe")
    /\ IF shortest_path(G_safe, orig_node, dest_node).ok
       THEN /\ route' = shortest_path(G_safe, orig_node, dest_node).path
            /\ route_type' = "safe"
            /\ pc' = "synthesize"
       ELSE /\ pc' = "search_fallback"
            /\ UNCHANGED <<route, route_type>>

\* a planner that starts over when the search on the unfiltered graph fails
SearchFallbackRetry ==
    /\ pc = "search_fallback"
    /\ UNCHANGED <<parked, request, mode, osm_data, G, orig_node, dest_node, risk_nodes,
                   G_safe, result, response>>
    /\ calls' = Called("search_fallback")
    /\ IF shortest_path(G, orig_node, dest_node).ok
       THEN /\ route' = shortest_path(G, orig_node, dest_node).path
            /\ route_type' = "risky"
            /\ pc' = "synthesize"
       ELSE /\ pc' = "search_safe"
            /\ UNCHANGED <<route, route_type>>

\* lines 136-137: the search on the unfiltered graph
SearchFallback ==
    /\ pc = "search_fallback"
    /\ UNCHANGED <<parked, request, mode, osm_data, G, orig_node, dest_node, risk_nodes,
                   G_safe, result>>
    /\ IF shortest_path(G, orig_node, dest_node).ok
       THEN /\ route' = shortest_path(G, orig_node, dest_node).path
            /\ route_type' = "risky"
            /\ pc' = "synthesize"
            /\ calls' = Called("search_fallback")
            /\ UNCHANGED response
       ELSE /\ Raise(Called("search_fallback"))
            /\ UNCHANGED <<route, route_type>>

\* lines 139-155: polyline, instructions and distance of the route
Synthesize ==
    /\ pc = "synthesize"
    /\ UNCHANGED <<parked, request, mode, osm_data, G, orig_node, dest_node, risk_nodes,
                   G_safe, route, route_type, response, calls>>
    /\ result' = Synthesis(G, route)
    /\ pc' = "respond"

\* a response that always reports a safe route
MessageSafe(type) == "Safe route found avoiding risk zones."

\* the message of lines 190-191
Message(type) ==
    IF type = "safe" THEN "Safe route found avoiding risk zones."
    ELSE "Warning: No safe route available, passing through risk zones!"

\* lines 190-201: the response of the graph engine
RespondOsmnx ==
    /\ pc = "respond"
    /\ UNCHANGED <<parked, request, mode, osm_data, osmnx_locals, calls>>
    /\ response' = [status |-> "success", engine |-> "osmnx",
                    route_type |-> route_type,
                    distance_meters |-> result.route_length,
                    route |-> result.route_coords,
                    instructions |-> result.instructions,
                    risk_zones |-> request.risk_zones,
                    message |-> Message(route_type),
                    status_code |-> 200]
    /\ pc' = "done"

Next ==
    \/ NormalizeFrom
    \/ NormalizeTo
    \/ CheckCoordinates
    \/ SelectEngine
    \/ GoogleRoute
    \/ FetchGraph
    \/ NearestNodes
    \/ RiskFilter
    \/ SearchSafe
    \/ SearchFallback
    \/ Synthesize
    \/ RespondOsmnx

-----------------------------------------------------------------------------
(* Inputs *)

Modes == {"osm", "google", "auto", "bike"}

Zone(a) == [lat |-> a, lon |-> 0]

\* the lists of at most k risk zones at the latitudes L
ZoneLists(L, k) == UNION {[1..n -> {Zone(a) : a \in L}] : n \in 0..k}

Location(lat, lon, place) == [lat |-> lat, lon |-> lon, place |-> place]

\* the shapes a location of a request takes: coordinates, a place name, both,
\* or too little
Locations ==
    {Location(Some(a), Some(0), None) : a \in {1, 4}}
    \cup {Location(Some(1), Some(0), Some("Ram Ghat"))}
    \cup {Location(None, None, p) : p \in {None, Some("Ram Ghat"), Some("Nowhere")}}
    \cup {Location(None, Some(0), None), Location(Some(1), None, None)}

Request(from, to, zones) ==
    [from_lat |-> from.lat, from_lon |-> from.lon, from_place |-> from.place,
     to_lat |-> to.lat, to_lon |-> to.lon, to_place |-> to.place,
     risk_zones |-> zones]

Provided(g) == [ok |-> TRUE, graph |-> g]
Unavailable == [ok |-> FALSE, graph |-> EmptyGraph]

NoCalls ==
    [n \in {"geocode_address", "osmnx_route", "google_maps_route", "graph_from_bbox",
            "search_safe", "search_fallback"} |-> 0]

\* the calls made when get_route has entered osmnx_route without geocoding
Called_osmnx_route == [NoCalls EXCEPT !["osmnx_route"] = 1]

\* the handler at position p, before osmnx_route has set any of its variables
Start(p, counted) ==
    /\ pc = p
    /\ G = EmptyGraph
    /\ orig_node = 0
    /\ dest_node = 0
    /\ risk_nodes = {}
    /\ G_safe = EmptyGraph
    /\ route = <<>>
    /\ route_type = "none"
    /\ result = NoResult
    /\ response = NoResponse
    /\ calls = counted

\* requests of every shape and mode, on the maps of three nodes
Init ==
    /\ \E from \in Locations, to \in Locations, zones \in ZoneLists({2}, MaxZones) :
           request = Request(from, to, zones)
    /\ mode \in Modes
    /\ osm_data \in {Provided(g) : g \in Maps(1..3, MaxEdges)} \cup {Unavailable}
    /\ Start("normalize_from", NoCalls)
    /\ parked = NoFrame

\* osmnx_route is entered with coordinates and risk zones, on every map: the
\* origin at the first or second node's place, the destination at any node's,
\* the zones at the second or third node's
InitPlan ==
    /\ \E a \in {NodeLat(1), NodeLat(2)}, b \in {NodeLat(n) : n \in Nodes},
          zones \in ZoneLists({NodeLat(2), NodeLat(3)}, MaxZones) :
           request = Request(Location(Some(a), Some(0), None),
                             Location(Some(b), Some(0), None), zones)
    /\ mode = "osm"
    /\ osm_data \in {Provided(g) : g \in Maps(Nodes, MaxEdges)}
    /\ Start("graph_from_bbox", Called_osmnx_route)
    /\ parked = NoFrame

Spec == Init /\ [][Next]_vars

\* the steps of osmnx_route and the response made of what it returns
NextPlan ==
    \/ FetchGraph
    \/ NearestNodes
    \/ RiskFilter
    \/ SearchSafe
    \/ SearchFallback
    \/ Synthesize
    \/ RespondOsmnx

SpecPlan == InitPlan /\ [][NextPlan]_vars

(* Two requests in service *)

\* the variables of the running request
Frame ==
    [request |-> request, mode |-> mode, osm_data |-> osm_data, pc |-> pc, G |-> G,
     orig_node |-> orig_node, dest_node |-> dest_node, risk_nodes |-> risk_nodes,
     G_safe |-> G_safe, route |-> route, route_type |-> route_type,
     result |-> result, response |-> response, calls |-> calls]

\* a request as get_route receives it
Arrived(r, m, data) ==
    [request |-> r, mode |-> m, osm_data |-> data, pc |-> "normalize_from",
     G |-> EmptyGraph, orig_node |-> 0, dest_node |-> 0, risk_nodes |-> {},
     G_safe |-> EmptyGraph, route |-> <<>>, route_type |-> "none",
     result |-> NoResult, response |-> NoResponse, calls |-> NoCalls]

\* the scheduler stops the running request and runs the other, wherever
\* both are; each request has its own arguments and local variables
Switch ==
    /\ parked.pc \notin {"absent", "done"}
    /\ parked' = Frame
    /\ request' = parked.request
    /\ mode' = parked.mode
    /\ osm_data' = parked.osm_data
    /\ pc' = parked.pc
    /\ G' = parked.G
    /\ orig_node' = parked.orig_node
    /\ dest_node' = parked.dest_node
    /\ risk_nodes' = parked.risk_nodes
    /\ G_safe' = parked.G_safe
    /\ route' = parked.route
    /\ route_type' = parked.route_type
    /\ result' = parked.result
    /\ response' = parked.response
    /\ calls' = parked.calls

\* coordinates to coordinates; a place the geocoder knows, past a risk zone;
\* a destination the geocoder does not know
PairRequests ==
    {Request(Location(Some(1), Some(0), None), Location(Some(4), Some(0), None), <<>>),
     Request(Location(None, None, Some("Ram Ghat")),
             Location(Some(1), Some(0), None), <<Zone(2)>>),
     Request(Location(Some(1), Some(0), None), Location(None, None, Some("Nowhere")), <<>>)}

\* a street through the second node, and a street that passes it by
PairMaps ==
    {[nodes |-> {1, 2, 3}, length |-> ({1, 2} :> 10) @@ ({2, 3} :> 10)],
     [nodes |-> {1, 2, 3}, length |-> ({1, 3} :> 40)]}

Arrivals ==
    {Arrived(r, m, Provided(g)) : r \in PairRequests, m \in {"osm", "google"}, g \in PairMaps}

\* two requests have arrived; the first runs
InitPair ==
    /\ \E f \in Arrivals :
           /\ request = f.request
           /\ mode = f.mode
           /\ osm_data = f.osm_data
    /\ Start("normalize_from", NoCalls)
    /\ parked \in Arrivals

NextPair ==
    \/ NormalizeFrom
    \/ NormalizeTo
    \/ CheckCoordinates
    \/ SelectEngine
    \/ GoogleRoute
    \/ FetchGraph
    \/ NearestNodes
    \/ RiskFilter
    \/ SearchSafe
    \/ SearchFallback
    \/ Synthesize
    \/ RespondOsmnx
    \/ Switch

SpecPair == InitPair /\ [][NextPair]_vars

\* osmnx_route is entered as in InitPlan, the origin at the first or second
\* node's place and the destination at the fourth's
InitFilter ==
    /\ \E a \in {NodeLat(1), NodeLat(2)}, b \in {NodeLat(4)},
          zones \in ZoneLists({NodeLat(2), NodeLat(3)}, MaxZones) :
           request = Request(Location(Some(a), Some(0), None),
                             Location(Some(b), Some(0), None), zones)
    /\ mode = "osm"
    /\ osm_data \in {Provided(g) : g \in Maps(Nodes, MaxEdges)}
    /\ Start("graph_from_bbox", Called_osmnx_route)
    /\ parked = NoFrame

\* steps 1 to 3 of osmnx_route: the graph, the nearest nodes, the risk filter
NextFilter ==
    \/ FetchGraph
    \/ NearestNodes
    \/ RiskFilter

SpecFilter == InitFilter /\ [][NextFilter]_vars

-----------------------------------------------------------------------------
(* What the claims are stated with *)

Range(s) == {s[i] : i \in 1..Len(s)}

RECURSIVE PathsOnward(_, _, _)
\* the paths to b that begin with p and visit no node twice
PathsOnward(g, p, b) ==
    IF p[Len(p)] = b THEN {p}
    ELSE UNION {PathsOnward(g, Append(p, v), b) :
                    v \in {w \in g.nodes \ Range(p) : {p[Len(p)], w} \in Edges(g)}}

\* the paths of g from a to b that visit no node twice
SimplePaths(g, a, b) ==
    IF a \in g.nodes /\ b \in g.nodes THEN PathsOnward(g, <<a>>, b) ELSE {}

\* the paths among them that avoid the nodes of S
PathsAvoiding(g, a, b, S) == {p \in SimplePaths(g, a, b) : Range(p) \cap S = {}}

PathLength(g, p) == SumSeq([i \in 1..(Len(p) - 1) |-> g.length[{p[i], p[i + 1]}]])

\* the planner (step 4 of osmnx_route) has run to its end
Planned == calls.search_safe = 1 /\ pc \in {"synthesize", "respond", "done"}

\* the planner has returned a path
Routed == Planned /\ route_type # "none"

\* C1: filtered first, fallback second.  When origin and destination survive
\* the filter and a path joins them in the filtered graph, the planner returns
\* a path classified safe; otherwise, when a path joins them in the unfiltered
\* graph, it returns a path of the unfiltered graph classified risky that ends
\* at the destination node.
C1_FilteredFirst ==
    Planned =>
        IF PathsAvoiding(G, orig_node, dest_node, risk_nodes) # {}
        THEN route_type = "safe"
        ELSE SimplePaths(G, orig_node, dest_node) # {} =>
                /\ route_type = "risky"
                /\ route \in SimplePaths(G, orig_node, dest_node)

\* the fallback ran and returned a path of two edges or more through the
\* excluded nodes
C1_Witness ==
    /\ Planned
    /\ calls["search_fallback"] = 1
    /\ route_type = "risky"
    /\ Len(route) >= 3
    /\ route[Len(route)] = dest_node

\* C2: a returned path is classified risky exactly when it holds a node of
\* the excluded-node set.
C2_RiskyIffExcluded ==
    Routed => (route_type = "risky" <=> Range(route) \cap risk_nodes # {})

\* a safe path of an edge or more was returned although nodes are excluded
C2_Witness ==
    /\ Routed
    /\ route_type = "safe"
    /\ Len(route) >= 2
    /\ risk_nodes # {}

\* C3: when a path joins the nearest nodes of origin and destination, the
\* planner returns one: it starts at the node nearest to the origin, ends at
\* the node nearest to the destination, and its consecutive nodes are joined
\* by edges of the graph; a success response carries the polyline of such a
\* path.
C3_PathConnects ==
    LET Near(n, lat, lon) ==
            \A m \in G.nodes :
                (NodeLat(n) - lat) * (NodeLat(n) - lat) + (NodeLon(n) - lon) * (NodeLon(n) - lon)
                <= (NodeLat(m) - lat) * (NodeLat(m) - lat) + (NodeLon(m) - lon) * (NodeLon(m) - lon)
        Joins(p) ==
            /\ Len(p) >= 1
            /\ p[1] \in G.nodes
            /\ Near(p[1], request.from_lat[1], request.from_lon[1])
            /\ p[Len(p)] \in G.nodes
            /\ Near(p[Len(p)], request.to_lat[1], request.to_lon[1])
            /\ p[1] = orig_node
            /\ p[Len(p)] = dest_node
            /\ \A i \in 1..(Len(p) - 1) : {p[i], p[i + 1]} \in Edges(G)
    IN  /\ (Planned /\ SimplePaths(G, orig_node, dest_node) # {}) => Routed
        /\ Routed => Joins(route)
        /\ (response.status = "success" /\ response.engine = "osmnx") =>
              /\ Joins(route)
              /\ response.route =
                    [i \in 1..Len(route) |-> [lat |-> NodeLat(route[i]), lon |-> NodeLon(route[i])]]

\* a path of three edges was returned in a success response
C3_Witness ==
    /\ response.status = "success"
    /\ response.engine = "osmnx"
    /\ Len(route) = 4

\* C4: a safe path is a shortest one, by summed edge length, of the filtered
\* graph; a risky path is a shortest one of the unfiltered graph; without risk
\* zones a returned path is a shortest one of the whole graph, classified safe.
C4_Shortest ==
    Routed =>
        /\ route_type = "safe" =>
              /\ route \in PathsAvoiding(G, orig_node, dest_node, risk_nodes)
              /\ \A p \in PathsAvoiding(G, orig_node, dest_node, risk_nodes) :
                    PathLength(G, route) <= PathLength(G, p)
        /\ route_type = "risky" =>
              /\ route \in SimplePaths(G, orig_node, dest_node)
              /\ \A p \in SimplePaths(G, orig_node, dest_node) :
                    PathLength(G, route) <= PathLength(G, p)
        /\ request.risk_zones = <<>> =>
              /\ route_type = "safe"
              /\ \A p \in SimplePaths(G, orig_node, dest_node) :
                    PathLength(G, route) <= PathLength(G, p)

\* with nodes excluded, a safe path of two edges was returned although a
\* longer edge joins its ends directly
C4_Witness ==
    /\ Routed
    /\ route_type = "safe"
    /\ risk_nodes # {}
    /\ Len(route) = 3
    /\ {orig_node, dest_node} \in Edges(G)
    /\ PathLength(G, route) < G.length[{orig_node, dest_node}]

-----------------------------------------------------------------------------
(* The engine selection and the responses *)

\* the request's coordinates are resolved and the engine selection has run
Selected ==
    /\ pc \notin {"normalize_from", "normalize_to", "check_coordinates", "select_engine"}
    /\ request.from_lat # None /\ request.from_lon # None
    /\ request.to_lat # None /\ request.to_lon # None

\* neither osmnx_route nor any of its steps has run
GraphEngineIdle ==
    /\ calls["osmnx_route"] = 0
    /\ calls["graph_from_bbox"] = 0
    /\ calls["search_safe"] = 0
    /\ calls["search_fallback"] = 0
    /\ G = EmptyGraph /\ risk_nodes = {} /\ route = <<>>

C6_GraphBranch ==
    (Selected /\ (mode = "osm" \/ (mode = "auto" /\ request.risk_zones # <<>>))) =>
        /\ calls["osmnx_route"] = 1
        /\ calls["google_maps_route"] = 0
        /\ response.status = "success" => response.engine = "osmnx"

\* mode "osm" without risk zones was answered by the graph engine
C6_Witness ==
    /\ pc = "done"
    /\ mode = "osm"
    /\ request.risk_zones = <<>>
    /\ response.status = "success"
    /\ response.engine = "osmnx"

\* C7: with a mode that is none of "osm", "google", "auto", risk zones or not,
\* the request fails with the invalid-mode error and no engine is invoked.
C7_InvalidModeRejected ==
    (Selected /\ mode \notin {"osm", "google", "auto"}) =>
        /\ response = ErrorResponse("Invalid routing mode.", 400)
        /\ calls["google_maps_route"] = 0
        /\ GraphEngineIdle

\* C8: when origin and destination resolve to the same node the request ends
\* in an error response; no success response carries a route of one point.
C8_DegenerateRouteFails ==
    /\ (pc = "done" /\ orig_node # 0 /\ orig_node = dest_node) => response.status = "error"
    /\ (response.status = "success" /\ response.engine = "osmnx") => Len(response.route) >= 2

\* C9: when the graph engine cannot produce a route (the fetch fails, the
\* graph has no node, or no path joins origin and destination in the
\* unfiltered graph) the request ends with an error response, with a message
\* and without route, distance or instructions; a request never ends without
\* a response, and only a request that has ended has one.
C9_NoRouteIsError ==
    LET NoRoute ==
            \/ ~osm_data.ok
            \/ osm_data.graph.nodes = {}
            \/ orig_node # 0 /\ SimplePaths(osm_data.graph, orig_node, dest_node) = {}
    IN  /\ (calls["osmnx_route"] = 1 /\ NoRoute) => response.status # "success"
        /\ (pc = "done" /\ calls["osmnx_route"] = 1 /\ NoRoute) =>
              /\ response.status = "error"
              /\ DOMAIN response = {"status", "message", "status_code"}
        /\ pc = "done" <=> response.status \in {"success", "error"}
        /\ pc # "done" => response = NoResponse

\* no path joins origin and destination even in the unfiltered graph: the
\* fallback search failed and the request ended in an error
C9_Witness ==
    /\ pc = "done"
    /\ calls["search_fallback"] = 1
    /\ Cardinality(G.nodes) >= 2
    /\ orig_node # dest_node
    /\ response = NavigationFailed

\* C10: a success response of the graph engine whose path came from the
\* fallback search has route_type "risky" and the warning as its message; in
\* every success response of the graph engine the message is the warning
\* exactly when route_type is "risky", and otherwise route_type is "safe"
\* with the safe-route message.
C10_FallbackFlagged ==
    (response.status = "success" /\ response.engine = "osmnx") =>
        /\ calls["search_fallback"] = 1 =>
              /\ response.route_type = "risky"
              /\ response.message = "Warning: No safe route available, passing through risk zones!"
        /\ response.message = "Warning: No safe route available, passing through risk zones!"
              <=> response.route_type = "risky"
        /\ response.route_type # "risky" =>
              /\ response.route_type = "safe"
              /\ calls["search_fallback"] = 0
              /\ response.message = "Safe route found avoiding risk zones."

\* a path of the fallback search was returned in a success response
C10_Witness ==
    /\ response.status = "success"
    /\ response.engine = "osmnx"
    /\ calls["search_fallback"] = 1
    /\ Len(response.route) >= 2

-----------------------------------------------------------------------------
(* Route synthesis *)

\* osmnx_route has returned a path of two points or more with its synthesis
Synthesized == Routed /\ pc \in {"respond", "done"} /\ Len(route) >= 2

\* C11: for a path of N >= 2 points the instruction list has N entries, as the
\* polyline has; the first is the start marker, the last the arrival marker,
\* and every entry between them is the proceed instruction with the
\* coordinates of the polyline's point of that index, to 5 decimals; a path
\* of 2 points has the two markers only.
C11_Instructions ==
    Synthesized =>
        LET N == Len(route)
            ins == result.instructions
            pts == result.route_coords
        IN  /\ Len(ins) = N
            /\ Len(pts) = N
            /\ ins[1] = [text |-> "Start here", at |-> None]
            /\ ins[N] = [text |-> "You have arrived at your destination", at |-> None]
            /\ \A i \in 2..(N - 1) :
                  /\ ins[i].text = "Proceed to"
                  /\ ins[i].at = Some(<<5 * pts[i].lat, 5 * pts[i].lon>>)
                  /\ pts[i] = [lat |-> NodeLat(route[i]), lon |-> NodeLon(route[i])]
            /\ N = 2 => \A i \in 1..N : ins[i].at = None
            /\ pc = "done" => response.instructions = ins /\ response.route = pts

\* a path of four points was returned: two markers and two proceed instructions
C11_Witness ==
    /\ Synthesized
    /\ pc = "done"
    /\ Len(route) = 4
    /\ result.instructions[2].text = "Proceed to"
    /\ result.instructions[3].text = "Proceed to"

\* the great-circle distance of two points of a meridian, in units of 0.0001 m
Meridian(a, b) == 55597 * (IF a.lat >= b.lat THEN a.lat - b.lat ELSE b.lat - a.lat)

\* C12: the distance the graph engine reports is a non-negative integer, the
\* sum of the great-circle distances between consecutive points of the
\* polyline cut to whole meters; it is the same for every assignment of
\* "length" to the edges of the graph that leaves the path as it is.
C12_Distance ==
    Synthesized =>
        LET pts == result.route_coords
        IN  /\ result.route_length \in Nat
            /\ result.route_length =
                  SumSeq([i \in 1..(Len(pts) - 1) |-> Meridian(pts[i], pts[i + 1])]) \div 10000
            /\ \A f \in [Edges(G) -> Lengths] :
                  Synthesis([nodes |-> G.nodes, length |-> f], route).route_length
                      = result.route_length
            /\ pc = "done" => response.distance_meters = result.route_length

\* a distance was reported that is not the summed length of the path's edges
C12_Witness ==
    /\ Synthesized
    /\ pc = "done"
    /\ Len(route) >= 3
    /\ response.distance_meters > 0
    /\ response.distance_meters # PathLength(G, route)

-----------------------------------------------------------------------------
(* Resolution of the coordinates *)

Resolved ==
    /\ request.from_lat # None /\ request.from_lon # None
    /\ request.to_lat # None /\ request.to_lon # None

\* C13: no engine is invoked before origin and destination are resolved to
\* coordinates.  While the handler normalises its input no engine has run;
\* an engine runs only with all four coordinates present; a request that
\* ends with a coordinate missing (a place the geocoder does not find, or
\* too little input) ends in an error response and has invoked no engine.
C13_ResolvedBeforeEngines ==
    /\ pc \in {"normalize_from", "normalize_to", "check_coordinates", "select_engine"} =>
          calls["google_maps_route"] = 0 /\ GraphEngineIdle
    /\ (calls["google_maps_route"] > 0 \/ ~GraphEngineIdle) => Resolved
    /\ (pc = "done" /\ ~Resolved) =>
          /\ response.status = "error"
          /\ calls["google_maps_route"] = 0
          /\ GraphEngineIdle
    /\ (response.status = "error"
            /\ response.message \in {"Could not geocode source",
                                     "Could not geocode destination",
                                     "Source and destination must be provided"}) =>
          /\ ~Resolved
          /\ response.status_code = 400

\* the origin was geocoded, the destination's place was not found, and the
\* request ended before any engine ran
C13_Witness ==
    /\ pc = "done"
    /\ calls["geocode_address"] = 2
    /\ request.from_lat # None
    /\ request.to_lat = None
    /\ response = ErrorResponse("Could not geocode destination", 400)
    /\ calls["google_maps_route"] = 0
    /\ GraphEngineIdle

-----------------------------------------------------------------------------
(* The risk filter *)

\* step 3 of osmnx_route has run and step 4 is about to
Filtered == pc = "search_safe"

\* the graph nodes nearest to the zones
ZoneNodes(g, zones) ==
    {nearest_nodes(g, zones[i].lon, zones[i].lat) : i \in 1..Len(zones)}

\* C15 as claimed: the excluded nodes are exactly the nodes whose shortest
\* distance from some zone's nearest node, summed over edge lengths in
\* metres, is at most the avoidance radius.
C15_WithinSummedLength ==
    Filtered =>
        risk_nodes =
            {n \in G.nodes :
                \E z \in ZoneNodes(G, request.risk_zones) :
                    \E p \in SimplePaths(G, z, n) : PathLength(G, p) <= AvoidRadius}

\* radii small enough to tell near nodes from far ones on these maps, and the
\* radius of the code
Radii == (0..MaxRadius) \cup {AvoidRadius}

\* the nodes that a walk of at most r edges from z reaches
Expansion(g, z, r) ==
    {n \in g.nodes : \E p \in SimplePaths(g, z, n) : Len(p) - 1 <= r}

\* the zone list with the zones at i and j exchanged
Exchanged(zones, i, j) == [zones EXCEPT ![i] = zones[j], ![j] = zones[i]]

\* C16: the excluded nodes are the union of the expansions of the zones, each
\* taken on the unfiltered graph, at the radius of the code and at every
\* other radius: exchanging any two zones of any zone list changes nothing,
\* so the order of the zones does not matter, a zone whose nearest
\* node another zone excluded contributes its whole expansion, each zone's
\* nearest node is excluded, and the origin and destination nodes are removed
\* from the filtered graph when an expansion holds them.
C16_UnionOfExpansions ==
    Filtered =>
        LET zones == request.risk_zones
        IN  /\ risk_nodes = UNION {Expansion(G, z, AvoidRadius) : z \in ZoneNodes(G, zones)}
            /\ ZoneNodes(G, zones) \subseteq risk_nodes
            /\ G_safe = remove_nodes_from(G, risk_nodes)
            /\ G_safe.nodes = G.nodes \ risk_nodes
            /\ \A n \in {orig_node, dest_node} :
                   (\E z \in ZoneNodes(G, zones) : n \in Expansion(G, z, AvoidRadius))
                       => n \notin G_safe.nodes
            /\ \A r \in Radii :
                   LET excluded == RiskNodesWithin(G, zones, r)
                   IN  /\ excluded = UNION {Expansion(G, z, r) : z \in ZoneNodes(G, zones)}
                       /\ \A i, j \in 1..Len(zones) :
                              i < j => RiskNodesWithin(G, Exchanged(zones, i, j), r) = excluded

\* two zones, the second's nearest node inside the first's expansion at one
\* edge, the second adding a node of its own; the origin node is excluded
C16_Witness ==
    /\ Filtered
    /\ Len(request.risk_zones) = 2
    /\ LET zones == request.risk_zones
           z1 == nearest_nodes(G, zones[1].lon, zones[1].lat)
           z2 == nearest_nodes(G, zones[2].lon, zones[2].lat)
       IN  /\ z1 # z2
           /\ z2 \in Expansion(G, z1, 1)
           /\ Expansion(G, z2, 1) \ Expansion(G, z1, 1) # {}
           /\ Expansion(G, z2, 1) \subseteq RiskNodesWithin(G, zones, 1)
    /\ orig_node \in risk_nodes
    /\ orig_node \notin G_safe.nodes

\* C17: for a fixed graph and zone list, a smaller radius excludes a subset
\* of what a larger radius excludes.
C17_Monotone ==
    Filtered =>
        LET excluded == [r \in Radii |-> RiskNodesWithin(G, request.risk_zones, r)] @@ <<>>
        IN  /\ \A r1, r2 \in Radii : r1 <= r2 => excluded[r1] \subseteq excluded[r2]
            /\ \A r \in Radii : r <= AvoidRadius => excluded[r] \subseteq risk_nodes

\* a larger radius excludes strictly more, twice over
C17_Witness ==
    /\ Filtered
    /\ RiskNodesWithin(G, request.risk_zones, 0) # RiskNodesWithin(G, request.risk_zones, 1)
    /\ RiskNodesWithin(G, request.risk_zones, 1) # RiskNodesWithin(G, request.risk_zones, 2)
    /\ RiskNodesWithin(G, request.risk_zones, 2) = risk_nodes

-----------------------------------------------------------------------------
(* The graph and its copy; the searches *)

\* C18: the filter works on a copy.  From the fetch to the end of the request
\* G is the graph that was fetched, whatever was removed from G_safe: the
\* fallback's path is a path of the fetched graph and the polyline is read
\* from it.
C18_GraphUnchanged ==
    /\ calls["graph_from_bbox"] = 0 => G = EmptyGraph
    /\ (calls["graph_from_bbox"] = 1 /\ osm_data.ok) => G = osm_data.graph
    /\ (pc = "search_safe" \/ calls["search_safe"] = 1) =>
          /\ G_safe.nodes = osm_data.graph.nodes \ risk_nodes
          /\ Edges(G_safe) = {e \in Edges(osm_data.graph) : e \cap risk_nodes = {}}
    /\ route_type = "risky" => route \in SimplePaths(osm_data.graph, orig_node, dest_node)
    /\ Synthesized => result = Synthesis(osm_data.graph, route)

\* the filter removed nodes and edges from the copy, the search on the copy
\* failed, and the fallback found its path in the graph as fetched
C18_Witness ==
    /\ pc = "done"
    /\ response.status = "success"
    /\ route_type = "risky"
    /\ Edges(G_safe) # Edges(G)
    /\ Range(route) \cap risk_nodes # {}
    /\ G = osm_data.graph

\* C19: one fetch, one search on the filtered graph, at most one search on
\* the unfiltered graph, which runs only after the first has failed; when
\* the second fails too the request ends in error.  The filtered search has
\* run once in every request that got to the planner and past it.
C19_NoRetry ==
    /\ calls["graph_from_bbox"] <= 1
    /\ calls["search_safe"] <= 1
    /\ calls["search_fallback"] <= 1
    /\ pc # "graph_from_bbox" => calls["graph_from_bbox"] = 1
    /\ pc \in {"search_fallback", "synthesize", "respond"} => calls["search_safe"] = 1
    /\ response.status = "success" => calls["search_safe"] = 1
    /\ pc \in {"graph_from_bbox", "nearest_nodes", "risk_filter", "search_safe"} =>
          calls["search_safe"] = 0 /\ calls["search_fallback"] = 0
    /\ (pc = "search_fallback" \/ calls["search_fallback"] = 1) =>
          /\ calls["search_safe"] = 1
          /\ ~shortest_path(G_safe, orig_node, dest_node).ok
    /\ (calls["search_fallback"] = 1 /\ ~shortest_path(G, orig_node, dest_node).ok) =>
          /\ pc = "done"
          /\ response = NavigationFailed
          /\ route = <<>>
    /\ route_type = "safe" => calls["search_fallback"] = 0
    /\ route_type = "risky" => calls["search_fallback"] = 1

\* both searches ran once and failed, and the request ended in error
C19_Witness ==
    /\ pc = "done"
    /\ calls["graph_from_bbox"] = 1
    /\ calls["search_safe"] = 1
    /\ calls["search_fallback"] = 1
    /\ ~shortest_path(G, orig_node, dest_node).ok
    /\ response = NavigationFailed

-----------------------------------------------------------------------------
(* Requests served together *)

\* what osmnx_route and lines 190-201 answer to a request with coordinates
\* that is served alone
GraphAnswer(r, data) ==
    IF ~data.ok \/ data.graph.nodes = {} THEN NavigationFailed
    ELSE LET g == data.graph
             o == nearest_nodes(g, r.from_lon[1], r.from_lat[1])
             d == nearest_nodes(g, r.to_lon[1], r.to_lat[1])
             safe == shortest_path(remove_nodes_from(g, RiskNodes(g, r.risk_zones)), o, d)
             risky == shortest_path(g, o, d)
             answer(type, path) ==
                 [status |-> "success", engine |-> "osmnx", route_type |-> type,
                  distance_meters |-> Synthesis(g, path).route_length,
                  route |-> Synthesis(g, path).route_coords,
                  instructions |-> Synthesis(g, path).instructions,
                  risk_zones |-> r.risk_zones,
                  message |-> Message(type),
                  status_code |-> 200]
         IN  IF safe.ok THEN answer("safe", safe.path)
             ELSE IF risky.ok THEN answer("risky", risky.path)
             ELSE NavigationFailed

\* the answers of lines 184-218 to a request after normalisation
EngineAnswers(r, m, data) ==
    IF r.from_lat = None \/ r.from_lon = None \/ r.to_lat = None \/ r.to_lon = None
    THEN {ErrorResponse("Source and destination must be provided", 400)}
    ELSE IF Len(r.risk_zones) > 0 \/ m = "osm" THEN {GraphAnswer(r, data)}
    ELSE IF m \in {"google", "auto"}
    THEN {NavigationFailed,
          [status |-> "success", engine |-> "google", distance_meters |-> 1200,
           route |-> <<[lat |-> 4, lon |-> 0]>>,
           instructions |-> <<[text |-> "Head north", at |-> None]>>,
           risk_zones |-> r.risk_zones,
           message |-> "Google Maps route calculated.",
           status_code |-> 200]}
    ELSE {ErrorResponse("Invalid routing mode.", 400)}

\* the answers a request can get when it is the only one in service: they
\* depend on the request, the mode, the map of its bounding box, and on
\* whether the geocoder and the Directions API answer
ServedAlone(r, m, data) ==
    LET destination(q) ==
            IF (q.to_lat = None \/ q.to_lon = None) /\ q.to_place # None
            THEN {NavigationFailed} \cup
                 (IF geocode_address(q.to_place[1]) = None
                  THEN {ErrorResponse("Could not geocode destination", 400)}
                  ELSE EngineAnswers(
                           [q EXCEPT !.to_lat = Some(geocode_address(q.to_place[1])[1][1]),
                                     !.to_lon = Some(geocode_address(q.to_place[1])[1][2])],
                           m, data))
            ELSE EngineAnswers(q, m, data)
    IN  IF (r.from_lat = None \/ r.from_lon = None) /\ r.from_place # None
        THEN {NavigationFailed} \cup
             (IF geocode_address(r.from_place[1]) = None
              THEN {ErrorResponse("Could not geocode source", 400)}
              ELSE destination(
                       [r EXCEPT !.from_lat = Some(geocode_address(r.from_place[1])[1][1]),
                                 !.from_lon = Some(geocode_address(r.from_place[1])[1][2])]))
        ELSE destination(r)

\* C14: requests are independent.  However the steps of two requests in
\* service interleave, each of them, when it ends, has got an answer it can
\* get when it is served alone: the answer depends on its own request, mode
\* and map only.
C14_ServedAsAlone ==
    /\ pc = "done" => response \in ServedAlone(request, mode, osm_data)
    /\ parked.pc = "done" =>
          parked.response \in ServedAlone(parked.request, parked.mode, parked.osm_data)

\* two requests on different maps were in service together and both ended,
\* one with a safe route and one with a risky route
C14_Witness ==
    /\ pc = "done"
    /\ parked.pc = "done"
    /\ osm_data # parked.osm_data
    /\ G # parked.G
    /\ response.status = "success" /\ response.engine = "osmnx"
    /\ parked.response.status = "success" /\ parked.response.engine = "osmnx"
    /\ route_type # parked.route_type

====
